---- MODULE Spec2Model ----
(***************************************************************************)
(* Model of Project/app.py: the technical gas-safety analyzer              *)
(* (analyze_gas_mixer), the patient-specific rule set                      *)
(* (clinical_adjustment) and the evaluation pipeline of main.              *)
(*                                                                         *)
(* Units.  Flows are integers in tenths of a litre per minute (the step of *)
(* the sliders), agent concentration is in tenths of a percent.  FiO2 is   *)
(* an exact fraction [n, d] of percent with d > 0, so that every           *)
(* comparison of the code is decided exactly; the binary rounding of the   *)
(* floating-point operations is not modelled.  The timestamp field of the  *)
(* result is left out: nothing reads it.                                   *)
(***************************************************************************)
EXTENDS Integers, Sequences, FiniteSets

VARIABLES flow_o2, flow_n2o, flow_air, agent, patient,
          pc, loc, result, fio2_arg, clinical_warnings, display

vars == <<flow_o2, flow_n2o, flow_air, agent, patient,
          pc, loc, result, fio2_arg, clinical_warnings, display>>

---------------------------------------------------------------------------
(* Bounds of the model *)

\* analyzer inputs: flows range over -NegFlow .. MaxFlow (tenths of L/min)
MaxFlow == 7
NegFlow == 1
\* second tuple of the pairwise comparison: flows over -NegFlow .. MaxPairFlow
MaxPairFlow == 3
\* slider positions explored by the pipeline of main: 0 .. MaxSliderFlow
MaxSliderFlow == 4

---------------------------------------------------------------------------
(* Program constants *)

AIR_O2_FRACTION == 21
HYPOXIA_FIO2 == 25
LOW_FLOW == 5
AGENT_HIGH == 80
BASE_FIO2 == 25
RAISED_FIO2 == 30
AGE_INFANT == 1
AGE_ELDERLY == 65
ASA_HIGH == 3
LOW_WEIGHT == 50
AGENT_SENSITIVE == 60
LOW_COMPLIANCE == 30
MaxAgent == 100
DEFAULT_AGE == 30
DEFAULT_WEIGHT == 70
DEFAULT_COMPLIANCE == 50

---------------------------------------------------------------------------
(* Values *)

\* the fraction n/d, kept with a positive denominator (d # 0)
Rat(n, d) == IF d < 0 THEN [n |-> -n, d |-> -d] ELSE [n |-> n, d |-> d]

\* r < k for an integer k
RatLt(r, k) == r.n < k * r.d

\* the ":.1f" conversion: r rounded to the nearest tenth, ties to even
Format1f(r) ==
    LET up == (20 * r.n + r.d) \div (2 * r.d)
        tie == (20 * r.n + r.d) % (2 * r.d) = 0
    IN IF tie /\ up % 2 = 1 THEN up - 1 ELSE up

Msg(kind, arg) == [kind |-> kind, arg |-> arg]

NoResult ==
    [status |-> "NONE", category |-> "NONE",
     metrics |-> [fio2 |-> Rat(0, 1), total_flow |-> 0],
     alerts |-> <<>>, warnings |-> <<>>]

NoDisplay == [color |-> "none", success |-> FALSE, errors |-> <<>>, warns |-> <<>>]

---------------------------------------------------------------------------
(* analyze_gas_mixer *)

\* lines 17-22: the locals, and the total flow
EnterAnalyze(o2, n2o, air) ==
    [alerts |-> <<>>, warnings |-> <<>>, category |-> "SAFE",
     final_status |-> "PASS", total_flow |-> o2 + n2o + air,
     fio2_percent |-> Rat(0, 1), raised |-> FALSE]

\* variant: the early exit folded away
IsNoFlowSkipped(total_flow) == FALSE

\* line 25
IsNoFlow(total_flow) == total_flow = 0

\* variant: the zero-flow branch placed after the high-agent check
ZeroFlowResultLate ==
    [status |-> "FAIL", category |-> "CRITICAL",
     metrics |-> [fio2 |-> Rat(0, 1), total_flow |-> 0],
     alerts |-> <<Msg("no_flow", 0)>>,
     warnings |-> IF agent > AGENT_HIGH THEN <<Msg("high_agent", agent)>> ELSE <<>>]

\* lines 26-33
ZeroFlowResult ==
    [status |-> "FAIL", category |-> "CRITICAL",
     metrics |-> [fio2 |-> Rat(0, 1), total_flow |-> 0],
     alerts |-> <<Msg("no_flow", 0)>>, warnings |-> <<>>]

\* variant: air counted as pure oxygen
ComputeFio2Unweighted(l, o2, air) ==
    LET oxygen_volume == o2 * 100 + air * 100
    IN IF l.total_flow = 0
       THEN [l EXCEPT !.raised = TRUE]
       ELSE [l EXCEPT !.fio2_percent = Rat(oxygen_volume * 100, l.total_flow * 100)]

\* lines 35-36; oxygen_volume and the divisor in thousandths of L/min.
\* A zero divisor raises ZeroDivisionError.
ComputeFio2(l, o2, air) ==
    LET oxygen_volume == o2 * 100 + air * AIR_O2_FRACTION
    IN IF l.total_flow = 0
       THEN [l EXCEPT !.raised = TRUE]
       ELSE [l EXCEPT !.fio2_percent = Rat(oxygen_volume * 100, l.total_flow * 100)]

\* variant: the threshold taken inclusive
HypoxiaCheckInclusive(l) ==
    IF l.fio2_percent.n <= HYPOXIA_FIO2 * l.fio2_percent.d
    THEN [l EXCEPT !.category = "CRITICAL", !.final_status = "FAIL",
                   !.alerts = Append(@, Msg("hypoxia", Format1f(l.fio2_percent)))]
    ELSE l

\* variant: the status left at PASS
HypoxiaCheckNoStatus(l) ==
    IF RatLt(l.fio2_percent, HYPOXIA_FIO2)
    THEN [l EXCEPT !.category = "CRITICAL",
                   !.alerts = Append(@, Msg("hypoxia", Format1f(l.fio2_percent)))]
    ELSE l

\* lines 39-44
HypoxiaCheck(l) ==
    IF RatLt(l.fio2_percent, HYPOXIA_FIO2)
    THEN [l EXCEPT !.category = "CRITICAL", !.final_status = "FAIL",
                   !.alerts = Append(@, Msg("hypoxia", Format1f(l.fio2_percent)))]
    ELSE l

\* variant: the category overwritten without looking at it
LowFlowCheckOverwrite(l) ==
    IF l.total_flow < LOW_FLOW
    THEN [l EXCEPT !.category = "WARNING",
                   !.warnings = Append(@, Msg("low_flow", 0))]
    ELSE l

\* lines 47-52
LowFlowCheck(l) ==
    IF l.total_flow < LOW_FLOW
    THEN [l EXCEPT !.category = IF @ # "CRITICAL" THEN "WARNING" ELSE @,
                   !.warnings = Append(@, Msg("low_flow", 0))]
    ELSE l

\* variant: the category overwritten without looking at it
HighAgentCheckOverwrite(l, agent_perc) ==
    IF agent_perc > AGENT_HIGH
    THEN [l EXCEPT !.category = "WARNING",
                   !.warnings = Append(@, Msg("high_agent", agent_perc))]
    ELSE l

\* lines 55-60
HighAgentCheck(l, agent_perc) ==
    IF agent_perc > AGENT_HIGH
    THEN [l EXCEPT !.category = IF @ # "CRITICAL" THEN "WARNING" ELSE @,
                   !.warnings = Append(@, Msg("high_agent", agent_perc))]
    ELSE l

\* lines 62-72
ReturnResult(l) ==
    [status |-> l.final_status, category |-> l.category,
     metrics |-> [fio2 |-> l.fio2_percent, total_flow |-> l.total_flow],
     alerts |-> l.alerts, warnings |-> l.warnings]

\* the whole call: [raised, value]
analyze_gas_mixer(o2, n2o, air, agent_perc) ==
    LET l0 == EnterAnalyze(o2, n2o, air)
    IN IF IsNoFlow(l0.total_flow)
       THEN [raised |-> FALSE, value |-> ZeroFlowResult]
       ELSE LET l1 == ComputeFio2(l0, o2, air)
            IN IF l1.raised
               THEN [raised |-> TRUE, value |-> NoResult]
               ELSE [raised |-> FALSE,
                     value |-> ReturnResult(
                         HighAgentCheck(LowFlowCheck(HypoxiaCheck(l1)), agent_perc))]

---------------------------------------------------------------------------
(* Inputs *)

AgentInputs ==
    {0, AGENT_SENSITIVE, AGENT_SENSITIVE + 1, AGENT_HIGH, AGENT_HIGH + 1, MaxAgent}

Flows == (0 - NegFlow) .. MaxFlow

DefaultPatient ==
    [age |-> DEFAULT_AGE, weight |-> DEFAULT_WEIGHT,
     compliance |-> DEFAULT_COMPLIANCE, asa |-> 1]

---------------------------------------------------------------------------
(* One call of analyze_gas_mixer, statement by statement *)

Init ==
    /\ flow_o2 \in Flows
    /\ flow_n2o \in Flows
    /\ flow_air \in Flows
    /\ agent \in AgentInputs
    /\ patient = DefaultPatient
    /\ pc = "call"
    /\ loc = EnterAnalyze(0, 0, 0)
    /\ result = NoResult
    /\ fio2_arg = Rat(0, 1)
    /\ clinical_warnings = <<>>
    /\ display = NoDisplay

Frame == UNCHANGED <<flow_o2, flow_n2o, flow_air, agent, patient,
                     fio2_arg, clinical_warnings, display>>

Enter ==
    /\ pc = "call"
    /\ loc' = EnterAnalyze(flow_o2, flow_n2o, flow_air)
    /\ pc' = "zero_check"
    /\ UNCHANGED result
    /\ Frame

ZeroFlowReturn ==
    /\ pc = "zero_check"
    /\ IsNoFlow(loc.total_flow)
    /\ result' = ZeroFlowResult
    /\ pc' = "returned"
    /\ UNCHANGED loc
    /\ Frame

Fio2Step ==
    /\ pc = "zero_check"
    /\ ~IsNoFlow(loc.total_flow)
    /\ loc' = ComputeFio2(loc, flow_o2, flow_air)
    /\ pc' = IF loc'.raised THEN "raised" ELSE "hypoxia"
    /\ UNCHANGED result
    /\ Frame

HypoxiaStep ==
    /\ pc = "hypoxia"
    /\ loc' = HypoxiaCheck(loc)
    /\ pc' = "low_flow"
    /\ UNCHANGED result
    /\ Frame

LowFlowStep ==
    /\ pc = "low_flow"
    /\ loc' = LowFlowCheck(loc)
    /\ pc' = "high_agent"
    /\ UNCHANGED result
    /\ Frame

HighAgentStep ==
    /\ pc = "high_agent"
    /\ loc' = HighAgentCheck(loc, agent)
    /\ pc' = "return"
    /\ UNCHANGED result
    /\ Frame

ReturnStep ==
    /\ pc = "return"
    /\ result' = ReturnResult(loc)
    /\ pc' = "returned"
    /\ UNCHANGED loc
    /\ Frame

Next ==
    \/ Enter
    \/ ZeroFlowReturn
    \/ Fio2Step
    \/ HypoxiaStep
    \/ LowFlowStep
    \/ HighAgentStep
    \/ ReturnStep

Spec == Init /\ [][Next]_vars

---------------------------------------------------------------------------
(* clinical_adjustment *)

\* variant: the ASA test written as an if/else that resets the floor
RecommendedFio2AsaOnly(p) ==
    IF p.asa >= ASA_HIGH THEN RAISED_FIO2 ELSE BASE_FIO2

\* lines 87-93
RecommendedFio2(p) ==
    LET r0 == BASE_FIO2
        r1 == IF p.age < AGE_INFANT \/ p.age > AGE_ELDERLY THEN RAISED_FIO2 ELSE r0
    IN IF p.asa >= ASA_HIGH THEN RAISED_FIO2 ELSE r1

\* variant: a truthiness test of fio2 in front of the comparison
FloorCheckTruthy(w, fio2, p) ==
    IF fio2.n # 0 /\ RatLt(fio2, RecommendedFio2(p))
    THEN Append(w, Msg("fio2_floor", RecommendedFio2(p)))
    ELSE w

\* lines 95-98
FloorCheck(w, fio2, p) ==
    IF RatLt(fio2, RecommendedFio2(p))
    THEN Append(w, Msg("fio2_floor", RecommendedFio2(p)))
    ELSE w

\* lines 101-104
SensitivityCheck(w, agent_perc, p) ==
    IF (p.age > AGE_ELDERLY \/ p.weight < LOW_WEIGHT) /\ agent_perc > AGENT_SENSITIVE
    THEN Append(w, Msg("agent_sensitivity", 0))
    ELSE w

\* lines 107-110
ComplianceCheck(w, p) ==
    IF p.compliance < LOW_COMPLIANCE
    THEN Append(w, Msg("low_compliance", 0))
    ELSE w

\* lines 78-112
clinical_adjustment(fio2, agent_perc, p) ==
    ComplianceCheck(
        SensitivityCheck(FloorCheck(<<>>, fio2, p), agent_perc, p), p)

Patients ==
    [age : {AGE_INFANT - 1, AGE_INFANT, AGE_ELDERLY, AGE_ELDERLY + 1},
     weight : {LOW_WEIGHT - 1, LOW_WEIGHT},
     compliance : {LOW_COMPLIANCE - 1, LOW_COMPLIANCE},
     asa : 1 .. 4]

\* FiO2 arguments of a direct call: whole percents around both floors
Fio2Inputs ==
    {Rat(k, 1) : k \in {0, BASE_FIO2 - 1, BASE_FIO2, BASE_FIO2 + 1,
                        RAISED_FIO2 - 1, RAISED_FIO2, RAISED_FIO2 + 1}}
    \cup {Rat(10 * BASE_FIO2 - 1, 10), Rat(10 * RAISED_FIO2 - 1, 10)}

InitClinical ==
    /\ flow_o2 = 0 /\ flow_n2o = 0 /\ flow_air = 0
    /\ agent \in AgentInputs
    /\ patient \in Patients
    /\ fio2_arg \in Fio2Inputs
    /\ pc = "clinical_call"
    /\ loc = EnterAnalyze(0, 0, 0)
    /\ result = NoResult
    /\ clinical_warnings = <<>>
    /\ display = NoDisplay

ClinicalCall ==
    /\ pc = "clinical_call"
    /\ clinical_warnings' = clinical_adjustment(fio2_arg, agent, patient)
    /\ pc' = "clinical_returned"
    /\ UNCHANGED <<flow_o2, flow_n2o, flow_air, agent, patient,
                   loc, result, fio2_arg, display>>

NextClinical == ClinicalCall

SpecClinical == InitClinical /\ [][NextClinical]_vars

---------------------------------------------------------------------------
(* main: lines 127-203 *)

SliderFlows == 0 .. MaxSliderFlow

\* lines 127-150: the sidebar controls
InitMain ==
    /\ flow_o2 \in SliderFlows
    /\ flow_n2o \in SliderFlows
    /\ flow_air \in SliderFlows
    /\ agent \in AgentInputs
    /\ patient \in Patients
    /\ pc = "analyze"
    /\ loc = EnterAnalyze(0, 0, 0)
    /\ result = NoResult
    /\ fio2_arg = Rat(0, 1)
    /\ clinical_warnings = <<>>
    /\ display = NoDisplay

\* variant: the clinical warnings put first
MergeWarningsPrepend(r, cw) == [r EXCEPT !.warnings = cw \o @]

\* line 163
MergeWarnings(r, cw) == [r EXCEPT !.warnings = @ \o cw]

\* lines 168-172
Color(category) ==
    IF category = "WARNING" THEN "orange"
    ELSE IF category = "CRITICAL" THEN "red" ELSE "green"

\* lines 196-203
Render(r) ==
    [color |-> Color(r.category),
     success |-> (r.alerts = <<>> /\ r.warnings = <<>>),
     errors |-> r.alerts,
     warns |-> r.warnings]

\* line 155
MainAnalyze ==
    /\ pc = "analyze"
    /\ LET out == analyze_gas_mixer(flow_o2, flow_n2o, flow_air, agent)
       IN IF out.raised
          THEN pc' = "raised" /\ UNCHANGED result
          ELSE pc' = "clinical" /\ result' = out.value
    /\ UNCHANGED <<flow_o2, flow_n2o, flow_air, agent, patient,
                   loc, fio2_arg, clinical_warnings, display>>

\* lines 157-161
MainClinical ==
    /\ pc = "clinical"
    /\ fio2_arg' = result.metrics.fio2
    /\ clinical_warnings' = clinical_adjustment(fio2_arg', agent, patient)
    /\ pc' = "merge"
    /\ UNCHANGED <<flow_o2, flow_n2o, flow_air, agent, patient,
                   loc, result, display>>

\* line 163
MainMerge ==
    /\ pc = "merge"
    /\ result' = MergeWarnings(result, clinical_warnings)
    /\ pc' = "display"
    /\ UNCHANGED <<flow_o2, flow_n2o, flow_air, agent, patient,
                   loc, fio2_arg, clinical_warnings, display>>

\* lines 168-203
MainDisplay ==
    /\ pc = "display"
    /\ display' = Render(result)
    /\ pc' = "displayed"
    /\ UNCHANGED <<flow_o2, flow_n2o, flow_air, agent, patient,
                   loc, result, fio2_arg, clinical_warnings>>

NextMain ==
    \/ MainAnalyze
    \/ MainClinical
    \/ MainMerge
    \/ MainDisplay

SpecMain == InitMain /\ [][NextMain]_vars

---------------------------------------------------------------------------
(* Properties of analyze_gas_mixer, checked under Spec *)

\* the severity order SAFE < WARNING < CRITICAL
Severity(c) == CASE c = "SAFE" -> 0 [] c = "WARNING" -> 1 [] c = "CRITICAL" -> 2

TotalIn == flow_o2 + flow_n2o + flow_air

Returned == pc = "returned"

\* C1: whenever the total flow is 0 the call returns status FAIL, category
\* CRITICAL, fio2 0, total_flow 0, the no-fresh-gas-flow alert alone and no
\* warning, whatever the agent concentration.
ThmC1 ==
    (Returned /\ TotalIn = 0) =>
        /\ result.status = "FAIL"
        /\ result.category = "CRITICAL"
        /\ result.metrics.fio2.n = 0
        /\ result.metrics.total_flow = 0
        /\ result.alerts = <<Msg("no_flow", 0)>>
        /\ result.warnings = <<>>

WitC1 == Returned /\ TotalIn = 0 /\ agent > AGENT_HIGH /\ result.warnings = <<>>

\* the reported fio2 equals (o2 + 0.21*air) / totalFlow * 100
Fio2IsFormula ==
    result.metrics.fio2.n * TotalIn
        = (100 * flow_o2 + 21 * flow_air) * result.metrics.fio2.d

Fio2InRange ==
    /\ result.metrics.fio2.n >= 0
    /\ result.metrics.fio2.n <= 100 * result.metrics.fio2.d

\* C2 as stated: with a positive total flow the reported fio2 is
\* (o2 + 0.21*air) / totalFlow * 100, and it lies in [0, 100] whenever
\* o2 >= 0, air >= 0, totalFlow >= 0 and o2 <= totalFlow.
OrigC2 ==
    (Returned /\ TotalIn > 0) =>
        /\ Fio2IsFormula
        /\ (flow_o2 >= 0 /\ flow_air >= 0 /\ TotalIn >= 0 /\ flow_o2 <= TotalIn)
              => Fio2InRange

\* C2 (amended): with a positive total flow the reported fio2 is
\* (o2 + 0.21*air) / totalFlow * 100, and it lies in [0, 100] whenever
\* o2 >= 0, n2o >= 0 and air >= 0.
ThmC2 ==
    (Returned /\ TotalIn > 0) =>
        /\ Fio2IsFormula
        /\ (flow_o2 >= 0 /\ flow_n2o >= 0 /\ flow_air >= 0) => Fio2InRange

WitC2 ==
    /\ Returned
    /\ flow_o2 > 0 /\ flow_n2o > 0 /\ flow_air > 0
    /\ result.metrics.fio2.n > 0
    /\ result.metrics.fio2.n < 100 * result.metrics.fio2.d

\* C3: across the checks hypoxia, low flow, high agent of one call the
\* category never moves down in the order SAFE < WARNING < CRITICAL.
ThmC3 ==
    [][(pc \in {"hypoxia", "low_flow", "high_agent"})
          => (Severity(loc'.category) >= Severity(loc.category))]_vars

WitC3 ==
    /\ pc = "return"
    /\ loc.category = "CRITICAL"
    /\ Len(loc.alerts) = 1
    /\ Len(loc.warnings) = 2

\* the trigger conditions an input tuple satisfies, read off the inputs;
\* the fio2 of a zero total flow is the reported 0
Triggers(o2, n2o, air, agent_perc) ==
    LET total == o2 + n2o + air
        oxy == 100 * o2 + AIR_O2_FRACTION * air
        hypoxic == \/ total = 0
                   \/ total > 0 /\ oxy < HYPOXIA_FIO2 * total
                   \/ total < 0 /\ oxy > HYPOXIA_FIO2 * total
    IN  (IF total = 0 THEN {"zero_flow"} ELSE {})
        \cup (IF hypoxic THEN {"hypoxia"} ELSE {})
        \cup (IF total < LOW_FLOW THEN {"low_flow"} ELSE {})
        \cup (IF agent_perc > AGENT_HIGH THEN {"high_agent"} ELSE {})

PairFlows == (0 - NegFlow) .. MaxPairFlow

PairInputs == PairFlows \X PairFlows \X PairFlows \X {AGENT_HIGH, AGENT_HIGH + 1}

CategoryOf(o2, n2o, air, agent_perc) ==
    analyze_gas_mixer(o2, n2o, air, agent_perc).value.category

\* C4: an input tuple that satisfies every trigger condition of the analysed
\* one gets a category at least as severe; in particular raising the agent
\* above 8 % with the flows held fixed never lowers the category.
ThmC4 ==
    Returned =>
        /\ \A b \in PairInputs :
             Triggers(flow_o2, flow_n2o, flow_air, agent)
                 \subseteq Triggers(b[1], b[2], b[3], b[4])
             => Severity(CategoryOf(b[1], b[2], b[3], b[4]))
                    >= Severity(result.category)
        /\ \A ag \in AgentInputs :
             ag > AGENT_HIGH
             => Severity(CategoryOf(flow_o2, flow_n2o, flow_air, ag))
                    >= Severity(result.category)

WitC4 ==
    /\ Returned
    /\ result.category = "CRITICAL"
    /\ Triggers(flow_o2, flow_n2o, flow_air, agent) = {"hypoxia"}
    /\ \E b \in PairInputs :
         Triggers(b[1], b[2], b[3], b[4]) = {"hypoxia", "low_flow", "high_agent"}

WellFormed(r) ==
    /\ r.status \in {"PASS", "FAIL"}
    /\ r.category \in {"SAFE", "WARNING", "CRITICAL"}
    /\ r.metrics.fio2.d > 0
    /\ r.metrics.total_flow \in Int
    /\ \A i \in 1 .. Len(r.alerts) : r.alerts[i].kind \in {"no_flow", "hypoxia"}
    /\ \A i \in 1 .. Len(r.warnings) : r.warnings[i].kind \in {"low_flow", "high_agent"}

\* C7: every call ends in a returned well-formed result and never in an
\* error: the division runs only with a non-zero total flow, each step before
\* the return has a successor, and a FAIL status comes with category CRITICAL.
ThmC7 ==
    /\ pc # "raised"
    /\ pc # "returned" => ENABLED Next
    /\ pc \in {"hypoxia", "low_flow", "high_agent", "return"} => loc.total_flow # 0
    /\ Returned => WellFormed(result) /\ (result.status = "FAIL" => result.category = "CRITICAL")

WitC7 ==
    /\ Returned
    /\ TotalIn = 0
    /\ flow_o2 # 0
    /\ result.status = "FAIL"

\* the reference decision table, read off the reported metrics
TableWarnings ==
    (IF result.metrics.total_flow < LOW_FLOW THEN <<Msg("low_flow", 0)>> ELSE <<>>)
    \o (IF agent > AGENT_HIGH THEN <<Msg("high_agent", agent)>> ELSE <<>>)

TableHypoxic == RatLt(result.metrics.fio2, HYPOXIA_FIO2)

\* C8: with a non-zero total flow the result equals the decision table with
\* strict thresholds: the hypoxia alert alone iff fio2 < 25; the low-flow
\* warning iff totalFlow < 0.5 followed by the high-agent warning iff
\* agent > 8, also when the hypoxia check fired; category CRITICAL if
\* fio2 < 25, else WARNING if a warning was appended, else SAFE; status FAIL
\* iff fio2 < 25.
ThmC8 ==
    (Returned /\ TotalIn # 0) =>
        /\ result.metrics.total_flow = TotalIn
        /\ Len(result.alerts) = (IF TableHypoxic THEN 1 ELSE 0)
        /\ \A i \in 1 .. Len(result.alerts) : result.alerts[i].kind = "hypoxia"
        /\ result.warnings = TableWarnings
        /\ result.category = (IF TableHypoxic THEN "CRITICAL"
                              ELSE IF TableWarnings # <<>> THEN "WARNING" ELSE "SAFE")
        /\ result.status = (IF TableHypoxic THEN "FAIL" ELSE "PASS")

WitC8 ==
    /\ Returned
    /\ TotalIn > LOW_FLOW
    /\ result.metrics.fio2.n = HYPOXIA_FIO2 * result.metrics.fio2.d
    /\ agent = AGENT_HIGH
    /\ result.category = "SAFE"

\* C9: every returned result is consistent: status FAIL iff category CRITICAL
\* iff alerts non-empty (then exactly one alert); category WARNING iff no
\* alert and some warning; category SAFE iff neither; status PASS iff
\* category SAFE or WARNING.
ThmC9 ==
    Returned =>
        /\ (result.status = "FAIL") <=> (result.category = "CRITICAL")
        /\ (result.category = "CRITICAL") <=> (result.alerts # <<>>)
        /\ result.alerts # <<>> => Len(result.alerts) = 1
        /\ (result.category = "WARNING")
              <=> (result.alerts = <<>> /\ result.warnings # <<>>)
        /\ (result.category = "SAFE")
              <=> (result.alerts = <<>> /\ result.warnings = <<>>)
        /\ (result.status = "PASS") <=> (result.category \in {"SAFE", "WARNING"})

WitC9 ==
    /\ Returned
    /\ result.category = "WARNING"
    /\ result.status = "PASS"
    /\ Len(result.warnings) = 2

---------------------------------------------------------------------------
(* Properties of clinical_adjustment, checked under SpecClinical *)

RaisedFloor(p) == p.age < 1 \/ p.age > 65 \/ p.asa >= 3

Recommended(p) == IF RaisedFloor(p) THEN 30 ELSE 25

\* C5: clinical_adjustment returns exactly the sub-sequence of [floor
\* warning, agent-sensitivity warning, compliance warning] whose conditions
\* hold, each condition read off the arguments alone: fio2 < recommended
\* (30 if age < 1 or age > 65 or asa >= 3, else 25); (age > 65 or
\* weight < 50) and agent > 6; compliance < 30.
ThmC5 ==
    pc = "clinical_returned" =>
        clinical_warnings =
            (IF fio2_arg.n < Recommended(patient) * fio2_arg.d
             THEN <<Msg("fio2_floor", Recommended(patient))>> ELSE <<>>)
            \o (IF (patient.age > 65 \/ patient.weight < 50) /\ agent > 60
                THEN <<Msg("agent_sensitivity", 0)>> ELSE <<>>)
            \o (IF patient.compliance < 30
                THEN <<Msg("low_compliance", 0)>> ELSE <<>>)

WitC5 ==
    /\ pc = "clinical_returned"
    /\ Len(clinical_warnings) = 3
    /\ patient.age > 65 /\ patient.asa >= 3

---------------------------------------------------------------------------
(* Properties of main, checked under SpecMain *)

Analysed == analyze_gas_mixer(flow_o2, flow_n2o, flow_air, agent).value

\* C6: after the clinical step and the merge the result keeps the status,
\* category, metrics and alerts the analyzer computes from the gas inputs
\* alone, and its warnings are the analyzer's followed by the clinical ones.
ThmC6 ==
    /\ pc \in {"merge", "display", "displayed"} =>
          /\ result.status = Analysed.status
          /\ result.category = Analysed.category
          /\ result.metrics = Analysed.metrics
          /\ result.alerts = Analysed.alerts
    /\ pc = "merge" => result.warnings = Analysed.warnings
    /\ pc \in {"display", "displayed"} =>
          result.warnings = Analysed.warnings \o clinical_warnings

WitC6 ==
    /\ pc = "displayed"
    /\ Len(Analysed.warnings) = 2
    /\ Len(clinical_warnings) = 3
    /\ Len(result.warnings) = 5

HasFloorWarning(w) == \E i \in 1 .. Len(w) : w[i].kind = "fio2_floor"

\* C10: when the analyzer's category is CRITICAL the merged warnings hold the
\* patient-specific FiO2-floor warning, so at least one alert and one warning
\* are shown; the safe-limits message is shown only when the category is
\* SAFE and no clinical check fired.
ThmC10 ==
    pc = "displayed" =>
        /\ result.category = "CRITICAL" =>
              /\ HasFloorWarning(display.warns)
              /\ Len(display.errors) >= 1
              /\ Len(display.warns) >= 1
        /\ display.success <=> (result.alerts = <<>> /\ result.warnings = <<>>)
        /\ display.success => result.category = "SAFE" /\ clinical_warnings = <<>>

WitC10 ==
    /\ pc = "displayed"
    /\ flow_o2 + flow_n2o + flow_air = 0
    /\ result.category = "CRITICAL"
    /\ patient.age = AGE_INFANT /\ patient.asa = 1
    /\ HasFloorWarning(display.warns)

====
